---- MODULE Spec2Model ----
(***************************************************************************)
(* uros/core.py: NodeHandle, the rosserial protocol engine.                *)
(*                                                                         *)
(* The node keeps a topic registry (_id, advertised_topics,                *)
(* subscribing_topics), writes frames to a UART (tx) from publish and      *)
(* subscribe, and runs a receive thread (_listen) that reads frames from   *)
(* the UART (rx), validates them and dispatches them to callbacks.         *)
(***************************************************************************)
EXTENDS Integers, Sequences, FiniteSets, TLC

(***************************************************************************)
(* Bounds of the model.                                                    *)
(***************************************************************************)
\* publish/subscribe calls issued by the caller
MaxCalls == 3
\* transmissions (frames, stray bytes) the peer puts on the wire
MaxFrames == 2

(***************************************************************************)
(* Values the program works with.                                          *)
(***************************************************************************)
Names == {"a", "b"}
\* the bytes of a topic name
NameBytes(n) == IF n = "a" THEN <<97>> ELSE <<98>>

\* message classes (generated by ugenpy); each has _type and _md5sum
MsgTypes == {"G", "H"}
TypeName(t) == IF t = "G" THEN <<71>> ELSE <<72>>
Md5Sum(t) == IF t = "G" THEN <<49>> ELSE <<50>>

\* what a message object writes into the StringIO: a string of code points
Bodies == {<< >>, <<104, 105>>, <<233>>}
Msgs == [type : MsgTypes, body : Bodies]

\* callbacks handed to subscribe; None is Python's None
None == "None"
Callbacks == {"cb1", "cb2"}

\* an unbound local variable of _listen
Unbound == "Unbound"
\* uart.read returned None where bytes were expected
NoneData == <<-1>>

Sum(s) == LET RECURSIVE Go(_)
              Go(i) == IF i > Len(s) THEN 0 ELSE s[i] + Go(i + 1)
          IN Go(1)

Concat(ss) == LET RECURSIVE Go(_)
                  Go(i) == IF i > Len(ss) THEN << >> ELSE ss[i] \o Go(i + 1)
              IN Go(1)

(***************************************************************************)
(* Module-level functions and constants of core.py.                        *)
(***************************************************************************)
header == <<255, 254>>

\* word(_l, _h): (_h << 8) + _l
word(_l, _h) == (_h * 256) + _l

\* the sum is not reduced
ChecksumNoMod(arr) == 255 - Sum(arr)

checksum(arr) == 255 - (Sum(arr) % 256)

\* swapped byte order: a big-endian encoder
LeBigEndian(_h) == LET m == _h % 65536 IN <<m \div 256, m % 256>>

\* the value is not masked to 16 bits
LeUnmasked(_h) == <<_h % 256, _h \div 256>>

\* _le(_h): _h &= 0xFFFF; [_h & 0xFF, _h >> 8]
_le(_h) == LET m == _h % 65536 IN <<m % 256, m \div 256>>

\* str.encode("utf-8") of one code point below 0x800
Utf8Char(c) == IF c < 128 THEN <<c>> ELSE <<192 + (c \div 64), 128 + (c % 64)>>

\* list(packet.getvalue().encode("utf-8"))
Utf8(str) == Concat([i \in 1..Len(str) |-> Utf8Char(str[i])])

\* struct.pack("<I", n) for n < 2^16, as the generated messages write lengths
Le32(n) == _le(n) \o <<0, 0>>

\* a length-prefixed string field of a generated message
StrField(s) == Le32(Len(s)) \o s

\* default buffer_size of publish and subscribe
DefaultBufferSize == 1024

\* TopicInfo.serialize: topic_id, topic_name, message_type, md5sum, buffer_size
SerializeTopicInfo(register) ==
    _le(register.topic_id) \o StrField(register.topic_name)
        \o StrField(register.message_type) \o StrField(register.md5sum)
        \o Le32(register.buffer_size)

\* msg.serialize(packet); list(packet.getvalue().encode("utf-8"))
SerializeMsg(msg) == Utf8(msg.body)

\* fpacket = header + _le(length) + crclen + topic + packet + crcpack
FPacket(topic, packet) ==
    header \o _le(Len(packet)) \o <<checksum(_le(Len(packet)))>>
        \o topic \o packet \o <<checksum(topic \o packet)>>

(***************************************************************************)
(* Reading a written frame back by the wire layout.                        *)
(***************************************************************************)
FrameTopicId(f) == word(f[6], f[7])
FrameLength(f) == word(f[3], f[4])
FramePayload(f) == SubSeq(f, 8, Len(f) - 1)

(***************************************************************************)
(* State.                                                                  *)
(***************************************************************************)
VARIABLES
    _id,                 \* self._id
    advertised_topics,   \* self.advertised_topics: name -> id
    subscribing_topics,  \* self.subscribing_topics: id -> <<msgobj, _cb>>
    tx,                  \* what uart.write was given, one entry per write
    rx,                  \* bytes the peer sent that uart.read has not returned yet
    lpc,                 \* where _listen is
    lengthbyte,          \* locals of _listen
    topic_id,
    msgdata,
    msgobj,
    cur,                 \* history: the peer frame _listen is reading in step
    last,                \* history: the operation that ran last and what it did
    used,                \* history: name -> how it was first used (k-th name), the id it got
    ncalls,              \* history: calls issued
    nframes,             \* history: transmissions of the peer
    thr,                 \* caller threads inside publish or subscribe: where, and locals
    called               \* history: name -> the threads that called with it

registry == <<_id, advertised_topics, subscribing_topics>>
listener == <<lpc, lengthbyte, topic_id, msgdata, msgobj, cur>>
threads == <<thr, called>>
vars == <<_id, advertised_topics, subscribing_topics, tx, rx, lpc, lengthbyte,
          topic_id, msgdata, msgobj, cur, last, used, ncalls, nframes, thr, called>>

\* no peer frame is being read in step
NoFrame == [kind |-> "none"]
\* cur: the frame being read in step (f), whether it began right where a frame
\* with a bad trailing checksum ended (afterBad), the table entry the lookup of
\* the dispatch found (entry), and the bytes this iteration has read (raw)
NoEntry == << >>
NoCur == [f |-> NoFrame, afterBad |-> FALSE, entry |-> NoEntry, raw |-> << >>]
Idle == [op |-> "init"]

\* threads that call publish and subscribe
Threads == {"t1", "t2"}
\* a thread that is in neither
IdleThr == [pc |-> "idle"]

\* NodeHandle.__init__: the registry is empty and the receive thread starts
Init ==
    /\ _id = 101
    /\ advertised_topics = << >>
    /\ subscribing_topics = << >>
    /\ tx = << >>
    /\ rx = << >>
    /\ lpc = "header"
    /\ lengthbyte = << >>
    /\ topic_id = << >>
    /\ msgdata = << >>
    /\ msgobj = Unbound
    /\ cur = NoCur
    /\ last = Idle
    /\ used = << >>
    /\ ncalls = 0
    /\ nframes = 0
    /\ thr = [t \in Threads |-> IdleThr]
    /\ called = << >>

\* d[k] = v (dict item assignment)
Put(d, k, v) == [x \in DOMAIN d \cup {k} |-> IF x = k THEN v ELSE d[x]]

(***************************************************************************)
(* The send side: _advertise_topic, publish, subscribe.                    *)
(***************************************************************************)
\* the header of the negotiation frame carries the new topic's ID
AdvertiseFrameAtId(topic_name, msgtype, endpoint, buffer_size) ==
    LET register == [topic_id |-> _id, topic_name |-> NameBytes(topic_name),
                     message_type |-> TypeName(msgtype), md5sum |-> Md5Sum(msgtype),
                     buffer_size |-> buffer_size]
    IN FPacket(_le(_id), SerializeTopicInfo(register))

\* register = TopicInfo(...); fpacket = header + ... + _le(endpoint) + packet + crcpack
RegisterFrame(id, topic_name, msgtype, endpoint, buffer_size) ==
    LET register == [topic_id |-> id, topic_name |-> NameBytes(topic_name),
                     message_type |-> TypeName(msgtype), md5sum |-> Md5Sum(msgtype),
                     buffer_size |-> buffer_size]
    IN FPacket(_le(endpoint), SerializeTopicInfo(register))

\* the frame of _advertise_topic when nothing runs between its statements
AdvertiseFrame(topic_name, msgtype, endpoint, buffer_size) ==
    RegisterFrame(_id, topic_name, msgtype, endpoint, buffer_size)

\* always advertise
AlwaysAdvertise(topic_name) == TRUE

\* topic_name not in self.advertised_topics
NotAdvertised(topic_name) == topic_name \notin DOMAIN advertised_topics

\* the key subscribe registers [msgobj, _cb] under: self._id
SubscribeKey(topic_name) == _id

\* TopicInfo ID_PUBLISHER, the endpoint publish passes
PublisherEndpoint == 0
\* TopicInfo ID_SUBSCRIBER, the endpoint subscribe passes
SubscriberEndpoint == 1

\* the data frame's topic taken from the counter instead of the table
CounterTopic(adv, topic_name) == _le(_id)

\* topic_id = _le(self.advertised_topics.get(topic_name))
DataTopic(adv, topic_name) == _le(adv[topic_name])

\* the counter moves on every call
NextIdAlways(fresh) == _id + 1

\* self._id += 1 in _advertise_topic, which runs for a name not yet advertised
NextId(fresh) == IF fresh THEN _id + 1 ELSE _id

\* the assertion lets every callback pass
CallbackAny(_cb) == TRUE

\* assert _cb is not None
CallbackSet(_cb) == _cb /= None

Publish(topic_name, msg) ==
    /\ LET fresh == NotAdvertised(topic_name)
           adv == IF fresh THEN Put(advertised_topics, topic_name, _id)
                  ELSE advertised_topics
           neg == IF fresh
                  THEN <<[site |-> "advertise", by |-> "publish",
                          bytes |-> AdvertiseFrame(topic_name, msg.type,
                                        PublisherEndpoint, DefaultBufferSize)]>>
                  ELSE << >>
           data == [site |-> "publish", by |-> "publish",
                    bytes |-> FPacket(DataTopic(adv, topic_name), SerializeMsg(msg))]
       IN /\ advertised_topics' = adv
          /\ _id' = NextId(fresh)
          /\ tx' = tx \o neg \o <<data>>
          /\ used' = IF topic_name \in DOMAIN used THEN used
                     ELSE Put(used, topic_name,
                              [id |-> adv[topic_name], by |-> "publish", entry |-> << >>,
                               k |-> Cardinality(DOMAIN used) + 1])
          /\ last' = [op |-> "publish", name |-> topic_name, msg |-> msg,
                      fresh |-> fresh, id |-> adv[topic_name], txlen |-> Len(tx)]
    /\ ncalls' = ncalls + 1
    /\ UNCHANGED <<subscribing_topics, rx, listener, nframes, threads>>

Subscribe(topic_name, msgtype, _cb) ==
    /\ IF ~CallbackSet(_cb)
       THEN \* AssertionError leaves subscribe at its first statement
            /\ last' = [op |-> "subscribe_failed", name |-> topic_name, cb |-> _cb,
                        exc |-> "AssertionError", reg |-> registry, tx |-> tx]
            /\ UNCHANGED <<registry, tx, used>>
       ELSE LET fresh == NotAdvertised(topic_name)
                adv == IF fresh THEN Put(advertised_topics, topic_name, _id)
                       ELSE advertised_topics
            IN /\ subscribing_topics' =
                      Put(subscribing_topics, SubscribeKey(topic_name), <<msgtype, _cb>>)
               /\ advertised_topics' = adv
               /\ _id' = NextId(fresh)
               /\ tx' = IF fresh
                        THEN Append(tx, [site |-> "advertise", by |-> "subscribe",
                                 bytes |-> AdvertiseFrame(topic_name, msgtype,
                                               SubscriberEndpoint, DefaultBufferSize)])
                        ELSE tx
               /\ used' = IF topic_name \in DOMAIN used THEN used
                          ELSE Put(used, topic_name,
                                   [id |-> adv[topic_name], by |-> "subscribe",
                                    entry |-> <<msgtype, _cb>>,
                                    k |-> Cardinality(DOMAIN used) + 1])
               /\ last' = [op |-> "subscribe", name |-> topic_name, msgobj |-> msgtype,
                           cb |-> _cb, fresh |-> fresh, id |-> adv[topic_name],
                           txlen |-> Len(tx)]
    /\ ncalls' = ncalls + 1
    /\ UNCHANGED <<rx, listener, nframes, threads>>

(***************************************************************************)
(* publish and subscribe statement by statement, as a thread runs them     *)
(* while other threads run.                                                *)
(***************************************************************************)
\* subscribe with the table insert moved behind the advertising
NextPcInsertLast(op, at, fresh) ==
    IF at = "call" THEN (IF op = "publish" THEN "p113" ELSE "s145")
    ELSE IF at = "p113" THEN (IF fresh THEN "a77" ELSE "p123")
    ELSE IF at = "s145" THEN (IF fresh THEN "a77" ELSE "s142")
    ELSE IF at = "s142" THEN "idle"
    ELSE IF at = "a77" THEN "a82"
    ELSE IF at = "a82" THEN "a85"
    ELSE IF at = "a85" THEN "a85w"
    ELSE IF at = "a85w" THEN "a102"
    ELSE IF at = "a102" THEN (IF op = "publish" THEN "p123" ELSE "s142")
    ELSE IF at = "p123" THEN "p128"
    ELSE "idle"

\* the statement that follows statement at (named by its line) in a call of
\* op; fresh is the outcome of the test 'topic_name not in advertised_topics'
NextPc(op, at, fresh) ==
    IF at = "call" THEN (IF op = "publish" THEN "p113" ELSE "s142")
    ELSE IF at = "p113" THEN (IF fresh THEN "a77" ELSE "p123")
    ELSE IF at = "s142" THEN "s145"
    ELSE IF at = "s145" THEN (IF fresh THEN "a77" ELSE "idle")
    ELSE IF at = "a77" THEN "a82"
    ELSE IF at = "a82" THEN "a85"
    ELSE IF at = "a85" THEN "a85w"
    ELSE IF at = "a85w" THEN "a102"
    ELSE IF at = "a102" THEN (IF op = "publish" THEN "p123" ELSE "idle")
    ELSE IF at = "p123" THEN "p128"
    ELSE "idle"

\* thread t goes on behind the statement it is at, with its locals as in rec
Goto(t, fresh, rec) ==
    LET to == NextPc(rec.call.op, rec.pc, fresh)
    IN thr' = [thr EXCEPT ![t] = IF to = "idle" THEN IdleThr ELSE [rec EXCEPT !.pc = to]]

ThrStep == [op |-> "thread"]

\* thread t calls publish(name, msg) or subscribe(name, msgobj, _cb)
ThrCall(t, c) ==
    /\ thr[t].pc = "idle"
    /\ Goto(t, FALSE, [pc |-> "call", call |-> c, reg_id |-> 0, tmp |-> 0, topic |-> 0])
    /\ called' = Put(called, c.name,
                     (IF c.name \in DOMAIN called THEN called[c.name] ELSE {}) \cup {t})
    /\ ncalls' = ncalls + 1
    /\ last' = ThrStep
    /\ UNCHANGED <<registry, tx, rx, listener, used, nframes>>

\* if topic_name not in self.advertised_topics (lines 113, 145)
ThrTest(t) ==
    /\ thr[t].pc \in {"p113", "s145"}
    /\ Goto(t, NotAdvertised(thr[t].call.name), thr[t])
    /\ last' = ThrStep
    /\ UNCHANGED <<registry, tx, rx, listener, used, ncalls, nframes, called>>

\* assert _cb is not None; self.subscribing_topics[self._id] = [msgobj, _cb]
ThrInsert(t) ==
    /\ thr[t].pc = "s142"
    /\ CallbackSet(thr[t].call.cb)
    /\ subscribing_topics' = Put(subscribing_topics, SubscribeKey(thr[t].call.name),
                                 <<thr[t].call.msgobj, thr[t].call.cb>>)
    /\ Goto(t, FALSE, thr[t])
    /\ last' = ThrStep
    /\ UNCHANGED <<_id, advertised_topics, tx, rx, listener, used, ncalls, nframes, called>>

\* register.topic_id = self._id
ThrRegister(t) ==
    /\ thr[t].pc = "a77"
    /\ Goto(t, FALSE, [thr[t] EXCEPT !.reg_id = _id])
    /\ last' = ThrStep
    /\ UNCHANGED <<registry, tx, rx, listener, used, ncalls, nframes, called>>

\* self.advertised_topics[topic_name] = self._id
ThrAdvertise(t) ==
    /\ thr[t].pc = "a82"
    /\ LET c == thr[t].call
       IN /\ advertised_topics' = Put(advertised_topics, c.name, _id)
          /\ used' = IF c.name \in DOMAIN used THEN used
                     ELSE Put(used, c.name,
                              [id |-> _id, by |-> c.op,
                               entry |-> IF c.op = "subscribe" THEN <<c.msgobj, c.cb>>
                                         ELSE << >>,
                               k |-> Cardinality(DOMAIN used) + 1])
    /\ Goto(t, FALSE, thr[t])
    /\ last' = ThrStep
    /\ UNCHANGED <<_id, subscribing_topics, tx, rx, listener, ncalls, nframes, called>>

\* self._id += 1: the value is loaded ...
ThrLoadId(t) ==
    /\ thr[t].pc = "a85"
    /\ Goto(t, FALSE, [thr[t] EXCEPT !.tmp = _id])
    /\ last' = ThrStep
    /\ UNCHANGED <<registry, tx, rx, listener, used, ncalls, nframes, called>>

\* ... and the sum is stored
ThrStoreId(t) ==
    /\ thr[t].pc = "a85w"
    /\ _id' = thr[t].tmp + 1
    /\ Goto(t, FALSE, thr[t])
    /\ last' = ThrStep
    /\ UNCHANGED <<advertised_topics, subscribing_topics, tx, rx, listener, used,
                   ncalls, nframes, called>>

\* self.uart.write(bytearray(fpacket)) of _advertise_topic
ThrWriteRegister(t) ==
    /\ thr[t].pc = "a102"
    /\ LET c == thr[t].call
           pub == c.op = "publish"
       IN tx' = Append(tx, [site |-> "advertise", by |-> c.op,
                            bytes |-> RegisterFrame(thr[t].reg_id, c.name,
                                          IF pub THEN c.msg.type ELSE c.msgobj,
                                          IF pub THEN PublisherEndpoint
                                          ELSE SubscriberEndpoint,
                                          DefaultBufferSize)])
    /\ Goto(t, FALSE, thr[t])
    /\ last' = ThrStep
    /\ UNCHANGED <<registry, rx, listener, used, ncalls, nframes, called>>

\* topic_id = _le(self.advertised_topics.get(topic_name))
ThrTopic(t) ==
    /\ thr[t].pc = "p123"
    /\ Goto(t, FALSE, [thr[t] EXCEPT !.topic = advertised_topics[thr[t].call.name]])
    /\ last' = ThrStep
    /\ UNCHANGED <<registry, tx, rx, listener, used, ncalls, nframes, called>>

\* self.uart.write(bytearray(fpacket)) of publish
ThrWriteData(t) ==
    /\ thr[t].pc = "p128"
    /\ tx' = Append(tx, [site |-> "publish", by |-> "publish",
                         bytes |-> FPacket(_le(thr[t].topic),
                                           SerializeMsg(thr[t].call.msg))])
    /\ Goto(t, FALSE, thr[t])
    /\ last' = ThrStep
    /\ UNCHANGED <<registry, rx, listener, used, ncalls, nframes, called>>

(***************************************************************************)
(* The wire towards the node: what the peer sends.                         *)
(***************************************************************************)
\* IDs the peer addresses: the control channel and the first IDs the node hands out
PeerIds == {0, 101, 102}
PeerPayloads == {<< >>, <<7>>}
FlipBits == {0, 7}

\* bit k of byte b inverted
Flip(b, k) == IF (b \div (2 ^ k)) % 2 = 1 THEN b - (2 ^ k) ELSE b + (2 ^ k)

\* the bytes of one peer transmission; the first byte remembers what it begins
Tagged(bytes, f) ==
    [i \in 1..Len(bytes) |-> [b |-> bytes[i], f |-> IF i = 1 THEN f ELSE NoFrame]]

\* a well-formed frame
PeerFrame(id, payload) ==
    /\ nframes < MaxFrames
    /\ rx' = rx \o Tagged(FPacket(_le(id), payload),
                           [kind |-> "valid", id |-> id, payload |-> payload])
    /\ nframes' = nframes + 1
    /\ last' = [op |-> "peer"]
    /\ UNCHANGED <<registry, tx, listener, used, ncalls, threads>>

\* a frame whose trailing checksum byte has one bit flipped
PeerBadChecksum(id, payload, k) ==
    LET good == FPacket(_le(id), payload)
        bad == [good EXCEPT ![Len(good)] = Flip(good[Len(good)], k)]
    IN /\ nframes < MaxFrames
       /\ rx' = rx \o Tagged(bad, [kind |-> "badchk", id |-> id, payload |-> payload])
       /\ nframes' = nframes + 1
       /\ last' = [op |-> "peer"]
       /\ UNCHANGED <<registry, tx, listener, used, ncalls, threads>>

\* a frame whose length checksum byte has one bit flipped
PeerBadLength(id, payload, k) ==
    LET good == FPacket(_le(id), payload)
        bad == [good EXCEPT ![5] = Flip(good[5], k)]
    IN /\ nframes < MaxFrames
       /\ rx' = rx \o Tagged(bad, [kind |-> "badlen", id |-> id, payload |-> payload])
       /\ nframes' = nframes + 1
       /\ last' = [op |-> "peer"]
       /\ UNCHANGED <<registry, tx, listener, used, ncalls, threads>>

\* one byte that belongs to no frame
PeerStray(b) ==
    /\ nframes < MaxFrames
    /\ rx' = rx \o Tagged(<<b>>, [kind |-> "stray"])
    /\ nframes' = nframes + 1
    /\ last' = [op |-> "peer"]
    /\ UNCHANGED <<registry, tx, listener, used, ncalls, threads>>

\* the node has written a subscriber negotiation frame that names id
Negotiated(id) ==
    \E i \in 1..Len(tx) :
        /\ tx[i].site = "advertise"
        /\ tx[i].by = "subscribe"
        /\ LET f == tx[i].bytes IN word(f[8], f[9]) = id

\* a well-formed frame for a topic the node has negotiated as a subscriber
PeerReply(id, payload) ==
    /\ Negotiated(id)
    /\ PeerFrame(id, payload)

(***************************************************************************)
(* The receive thread: NodeHandle._listen.                                 *)
(***************************************************************************)
Min(a, b) == IF a < b THEN a ELSE b

\* what uart.read(n) can do: return k <= n of the waiting bytes (k < n is a
\* short read), return None (nothing arrived in time), or raise OSError
ReadOutcomes(n) ==
    {[t |-> "bytes", k |-> k] : k \in 0..Min(n, Len(rx))}
        \cup {[t |-> "None", k |-> 0], [t |-> "OSError", k |-> 0]}

Bytes(k) == [i \in 1..k |-> rx[i].b]
Drop(k) == SubSeq(rx, k + 1, Len(rx))

\* the handler of the loop catches OSError and ValueError only
CaughtNoTypeError == {"OSError", "ValueError"}

\* except (OSError, TypeError, ValueError)
Caught == {"OSError", "TypeError", "ValueError"}

\* where the loop is after an iteration that raised exc ("none": ran through)
AfterIteration(exc) == IF exc = "none" \/ exc \in Caught THEN "header" ELSE "dead"

\* length = word(list(lengthbyte)[0], list(lengthbyte)[1])
length == word(lengthbyte[1], lengthbyte[2])
\* inid = word(topic_id[0], topic_id[1])
inid == word(topic_id[1], topic_id[2])

\* the length checksum is taken as valid whatever it is
LenChecksumAny(lb, lenchk) == TRUE

\* lenchecksum % 256 != 255 raises; this is the passing case
LenChecksumOk(lb, lenchk) == (Sum(lb) + lenchk) % 256 = 255

\* the payload checksum is taken as valid whatever it is
DataChecksumAny(tid, data, chk) == TRUE

\* datachecksum % 256 == 255
DataChecksumOk(tid, data, chk) == (Sum(tid) + Sum(data) + chk) % 256 = 255

\* fdata = msgobj(); fdata.deserialize(msgdata): the message class's own codec
Deserialize(cls, data) == [type |-> cls, data |-> data]

\* what a decoder or a callback can do: return, or raise an exception the
\* handler names (ValueError) or one it does not (KeyError)
Raises == {"none", "ValueError", "KeyError"}

\* an iteration ends: the locals are dead until they are assigned again
\* (msgobj is not: line 184 can use the one an earlier iteration left)
EndIteration(exc, afterBad) ==
    /\ lpc' = AfterIteration(exc)
    /\ lengthbyte' = << >>
    /\ topic_id' = << >>
    /\ msgdata' = << >>
    /\ cur' = [f |-> NoFrame, afterBad |-> afterBad, entry |-> NoEntry, raw |-> << >>]

\* what a read step of the loop leaves in the history: the step, the peer frame
\* that is still being read in step after it, and the exception it raised
Log(at, f, exc) == [op |-> "listen", at |-> at, f |-> f, exc |-> exc, reg |-> registry]

\* the frame stays in step when the read returned all n bytes
InStep(r, n) == IF r.t = "bytes" /\ r.k = n THEN cur.f ELSE NoFrame

\* flag = self.uart.read(2); if flag == b"\xff\xfe"
ReadHeader ==
    /\ lpc = "header"
    /\ \E r \in ReadOutcomes(2) :
          LET exc == IF r.t = "OSError" THEN "OSError" ELSE "none"
              match == r.t = "bytes" /\ Bytes(r.k) = header
              f == IF match /\ rx[1].f.kind \in {"valid", "badchk", "badlen"}
                   THEN rx[1].f ELSE NoFrame
          IN /\ rx' = Drop(r.k)
             /\ IF match
                THEN /\ lpc' = "length"
                     /\ cur' = [f |-> f, afterBad |-> f /= NoFrame /\ cur.afterBad,
                                entry |-> NoEntry, raw |-> Bytes(2)]
                     /\ UNCHANGED <<lengthbyte, topic_id, msgdata>>
                ELSE EndIteration(exc, r.k = 0 /\ cur.afterBad)
             /\ last' = Log("header", f, exc)
    /\ UNCHANGED <<registry, tx, msgobj, used, ncalls, nframes, threads>>

\* lengthbyte = self.uart.read(2); length = word(...)
ReadLength ==
    /\ lpc = "length"
    /\ \E r \in ReadOutcomes(2) :
          LET exc == IF r.t = "OSError" THEN "OSError"
                     ELSE IF r.t = "None" THEN "TypeError"
                     ELSE IF r.k < 2 THEN "IndexError"
                     ELSE "none"
          IN /\ rx' = Drop(r.k)
             /\ IF exc = "none"
                THEN /\ lengthbyte' = Bytes(2)
                     /\ lpc' = "lenchk"
                     /\ cur' = [cur EXCEPT !.raw = @ \o Bytes(2)]
                     /\ UNCHANGED <<topic_id, msgdata>>
                ELSE EndIteration(exc, FALSE)
             /\ last' = Log("length", InStep(r, 2), exc)
    /\ UNCHANGED <<registry, tx, msgobj, used, ncalls, nframes, threads>>

\* lenchk = self.uart.read(1); the length checksum
ReadLenChk ==
    /\ lpc = "lenchk"
    /\ \E r \in ReadOutcomes(1) :
          LET exc == IF r.t = "OSError" THEN "OSError"
                     ELSE IF r.t = "None" \/ r.k < 1 THEN "TypeError"
                     ELSE IF ~LenChecksumOk(lengthbyte, rx[1].b) THEN "ValueError"
                     ELSE "none"
          IN /\ rx' = Drop(r.k)
             /\ IF exc = "none"
                THEN /\ lpc' = "topic"
                     /\ cur' = [cur EXCEPT !.raw = @ \o Bytes(1)]
                     /\ UNCHANGED <<lengthbyte, topic_id, msgdata>>
                ELSE EndIteration(exc, FALSE)
             /\ last' = Log("lenchk", InStep(r, 1), exc)
    /\ UNCHANGED <<registry, tx, msgobj, used, ncalls, nframes, threads>>

\* topic_id = list(self.uart.read(2)); inid = word(...); if inid != 0
ReadTopic ==
    /\ lpc = "topic"
    /\ \E r \in ReadOutcomes(2) :
          LET exc == IF r.t = "OSError" THEN "OSError"
                     ELSE IF r.t = "None" THEN "TypeError"
                     ELSE IF r.k < 2 THEN "IndexError"
                     ELSE "none"
          IN /\ rx' = Drop(r.k)
             /\ IF exc = "none" /\ word(rx[1].b, rx[2].b) /= 0
                THEN /\ topic_id' = Bytes(2)
                     /\ lpc' = "payload"
                     /\ cur' = [cur EXCEPT !.raw = @ \o Bytes(2)]
                     /\ UNCHANGED <<lengthbyte, msgdata>>
                ELSE EndIteration(exc, FALSE)
             /\ last' = Log("topic", InStep(r, 2), exc)
    /\ UNCHANGED <<registry, tx, msgobj, used, ncalls, nframes, threads>>

\* msgdata = self.uart.read(length)
ReadPayload ==
    /\ lpc = "payload"
    /\ \E r \in ReadOutcomes(length) :
          LET exc == IF r.t = "OSError" THEN "OSError" ELSE "none"
          IN /\ rx' = Drop(r.k)
             /\ IF exc = "none"
                THEN /\ msgdata' = IF r.t = "None" THEN NoneData ELSE Bytes(r.k)
                     /\ lpc' = "chk"
                     /\ cur' = [cur EXCEPT !.f = InStep(r, length),
                                            !.raw = @ \o Bytes(r.k)]
                     /\ UNCHANGED <<lengthbyte, topic_id>>
                ELSE EndIteration(exc, FALSE)
             /\ last' = Log("payload", InStep(r, length), exc)
    /\ UNCHANGED <<registry, tx, msgobj, used, ncalls, nframes, threads>>

\* chk = self.uart.read(1); the checksum of topic ID and payload
ReadChk ==
    /\ lpc = "chk"
    /\ \E r \in ReadOutcomes(1) :
          LET exc == IF r.t = "OSError" THEN "OSError"
                     ELSE IF msgdata = NoneData \/ r.t = "None" \/ r.k < 1 THEN "TypeError"
                     ELSE IF ~DataChecksumOk(topic_id, msgdata, rx[1].b) THEN "ValueError"
                     ELSE "none"
              f == InStep(r, 1)
          IN /\ rx' = Drop(r.k)
             /\ IF exc = "none"
                THEN /\ lpc' = "lookup"
                     /\ cur' = [cur EXCEPT !.f = f, !.raw = @ \o Bytes(1)]
                     /\ UNCHANGED <<lengthbyte, topic_id, msgdata>>
                ELSE EndIteration(exc, f.kind = "badchk" /\ exc = "ValueError")
             /\ last' = Log("chk", f, exc)
    /\ UNCHANGED <<registry, tx, msgobj, used, ncalls, nframes, threads>>

\* msgobj = self.subscribing_topics.get(inid)[0], TypeError caught and logged
Lookup ==
    /\ lpc = "lookup"
    /\ LET found == inid \in DOMAIN subscribing_topics
       IN /\ msgobj' = IF found THEN subscribing_topics[inid][1] ELSE msgobj
          /\ cur' = [cur EXCEPT !.entry = IF found THEN subscribing_topics[inid] ELSE NoEntry]
    /\ lpc' = "invoke"
    /\ last' = Log("lookup", cur.f, "none")
    /\ UNCHANGED <<registry, tx, rx, lengthbyte, topic_id, msgdata, used, ncalls, nframes, threads>>

\* the callback of another entry of the table
OtherCallback(id) ==
    LET others == DOMAIN subscribing_topics \ {id}
    IN IF others = {} THEN subscribing_topics[id][2]
       ELSE subscribing_topics[CHOOSE o \in others : TRUE][2]

\* callback = self.subscribing_topics.get(inid)[1]
CallbackOf(id) == subscribing_topics[id][2]

\* callback = ...get(inid)[1]; fdata = msgobj().deserialize(msgdata); callback(fdata)
Invoke ==
    /\ lpc = "invoke"
    /\ \E dx \in Raises, cx \in Raises :
          LET found == inid \in DOMAIN subscribing_topics
              exc == IF ~found THEN "TypeError"
                     ELSE IF msgobj = Unbound THEN "UnboundLocalError"
                     ELSE IF dx /= "none" THEN dx
                     ELSE cx
              invoked == IF found /\ msgobj /= Unbound /\ dx = "none"
                         THEN <<[cb |-> CallbackOf(inid),
                                 msg |-> Deserialize(msgobj, msgdata)]>>
                         ELSE << >>
          IN /\ last' = [op |-> "listen", at |-> "invoke", f |-> cur.f, exc |-> exc,
                         invoked |-> invoked, entry |-> cur.entry, id |-> inid,
                         found |-> found, dx |-> dx, cx |-> cx,
                         afterBad |-> cur.afterBad, reg |-> registry, raw |-> cur.raw,
                         raisedBy |-> IF ~found \/ msgobj = Unbound \/ exc = "none"
                                      THEN "loop"
                                      ELSE IF dx /= "none" THEN "decoder" ELSE "callback"]
             /\ EndIteration(exc, FALSE)
    /\ UNCHANGED <<registry, tx, rx, msgobj, used, ncalls, nframes, threads>>

ListenNext ==
    \/ ReadHeader
    \/ ReadLength
    \/ ReadLenChk
    \/ ReadTopic
    \/ ReadPayload
    \/ ReadChk
    \/ Lookup
    \/ Invoke

PeerNext ==
    \/ \E id \in PeerIds, p \in PeerPayloads : PeerFrame(id, p)
    \/ \E k \in FlipBits : PeerBadChecksum(101, <<7>>, k)
    \/ PeerBadLength(101, <<7>>, 0)
    \/ PeerStray(254)

(***************************************************************************)
(* Specifications.                                                         *)
(***************************************************************************)
\* a single caller issuing publish and subscribe one after another
CallerPublish ==
    /\ ncalls < MaxCalls
    /\ \E n \in Names, m \in Msgs : Publish(n, m)

CallerSubscribe ==
    /\ ncalls < MaxCalls
    /\ \E n \in Names, t \in MsgTypes, c \in Callbacks \cup {None} : Subscribe(n, t, c)

SendNext == CallerPublish \/ CallerSubscribe

SpecSend == Init /\ [][SendNext]_vars

\* calls the caller issues while the peer sends and the receive thread runs
MaxNodeCalls == 2
NodeMsg == [type |-> "G", body |-> <<104, 105>>]
NodeSubs == {<<"G", "cb1">>, <<"H", "cb2">>}

NodePublish ==
    /\ ncalls < MaxNodeCalls
    /\ \E n \in Names : Publish(n, NodeMsg)

NodeSubscribe ==
    /\ ncalls < MaxNodeCalls
    /\ \E n \in Names, s \in NodeSubs : Subscribe(n, s[1], s[2])

Next == NodePublish \/ NodeSubscribe \/ PeerNext \/ ListenNext

\* the node: the caller, the peer and the receive thread
Spec == Init /\ [][Next]_vars

\* the node with two topics, each with its own message class and callback, and
\* a peer that sends data frames for them, well-formed or with a flipped bit in
\* the trailing checksum or in the length checksum
RecvSubscribe ==
    /\ ncalls < MaxNodeCalls
    /\ \/ Subscribe("a", "G", "cb1")
       \/ Subscribe("b", "H", "cb2")

RecvPeer ==
    \/ \E id \in {101, 102} : PeerFrame(id, <<7>>)
    \/ PeerBadChecksum(101, <<7>>, 0)
    \/ PeerBadLength(101, <<7>>, 0)

RecvNext == NodePublish \/ RecvSubscribe \/ RecvPeer \/ ListenNext

SpecRecv == Init /\ [][RecvNext]_vars

\* two threads calling publish and subscribe at the same time; nothing in
\* core.py keeps one out of the registry while the other is in it
MaxThreadCalls == 2
ThrCalls ==
    {[op |-> "publish", name |-> n, msg |-> NodeMsg] : n \in Names}
        \cup {[op |-> "subscribe", name |-> "a", msgobj |-> "G", cb |-> "cb1"],
              [op |-> "subscribe", name |-> "b", msgobj |-> "H", cb |-> "cb2"]}

ThreadsNext ==
    \E t \in Threads :
        \/ ncalls < MaxThreadCalls /\ \E c \in ThrCalls : ThrCall(t, c)
        \/ ThrTest(t)
        \/ ThrInsert(t)
        \/ ThrRegister(t)
        \/ ThrAdvertise(t)
        \/ ThrLoadId(t)
        \/ ThrStoreId(t)
        \/ ThrWriteRegister(t)
        \/ ThrTopic(t)
        \/ ThrWriteData(t)

SpecThreads == Init /\ [][ThreadsNext]_vars

\* one thread inside publish and subscribe while the receive thread runs and
\* the peer sends data for the topics it was told of
RaceCall == ncalls < MaxNodeCalls /\ \E c \in ThrCalls : ThrCall("t1", c)

RaceCaller ==
    \/ ThrTest("t1")
    \/ ThrInsert("t1")
    \/ ThrRegister("t1")
    \/ ThrAdvertise("t1")
    \/ ThrLoadId("t1")
    \/ ThrStoreId("t1")
    \/ ThrWriteRegister("t1")
    \/ ThrTopic("t1")
    \/ ThrWriteData("t1")

RacePeer == \E id \in {101, 102} : PeerReply(id, <<7>>)

RaceNext == RaceCall \/ RaceCaller \/ RacePeer \/ ListenNext

SpecRace == Init /\ [][RaceNext]_vars

\* the node on a transport whose read blocks until it can return every byte
\* asked for, with a decoder and a callback that return, and a peer that sends
\* one stray byte and, without end, well-formed frames for topic 101 once the
\* node has subscribed to it
MaxWaiting == 8

\* the bytes the statement the loop is at asks uart.read for
Wanted ==
    IF lpc \in {"header", "length", "topic"} THEN 2
    ELSE IF lpc \in {"lenchk", "chk"} THEN 1
    ELSE IF lpc = "payload" THEN length
    ELSE 0

BlockingListen ==
    /\ Len(rx) >= Wanted
    /\ ListenNext
    /\ Len(rx') = Len(rx) - Wanted
    /\ msgdata' /= NoneData
    /\ last'.exc /= "OSError"
    /\ last'.at = "invoke" => (last'.dx = "none" /\ last'.cx = "none")

StraySubscribe == ncalls = 0 /\ Subscribe("a", "G", "cb1")

\* the one stray byte, in front of what the peer sends for the topic
StrayByte == Negotiated(101) /\ nframes = 0 /\ PeerStray(254)

\* the frames that follow, sent as the node takes them off the wire
StrayFrames ==
    /\ nframes = 1
    /\ Len(rx) < MaxWaiting
    /\ \E p \in PeerPayloads :
          rx' = rx \o Tagged(FPacket(_le(101), p),
                             [kind |-> "valid", id |-> 101, payload |-> p])
    /\ last' = [op |-> "peer"]
    /\ UNCHANGED <<registry, tx, listener, used, ncalls, nframes, threads>>

StrayNext == StraySubscribe \/ StrayByte \/ StrayFrames \/ BlockingListen

\* the receive thread keeps running and the peer keeps sending
SpecStray ==
    /\ Init
    /\ [][StrayNext]_vars
    /\ WF_vars(BlockingListen)
    /\ WF_vars(StrayFrames)
    /\ WF_vars(StraySubscribe)

\* the receive path reading one frame the send path's encoder built
MaxPayloadLen == 2
CodecIds == {1, 101, 255, 256, 65535}
CodecBytes == {0, 255}
CodecPayloads == UNION {[1..n -> CodecBytes] : n \in 0..MaxPayloadLen}

InitCodec ==
    /\ _id = 101
    /\ advertised_topics = << >>
    /\ subscribing_topics = << >>
    /\ tx = << >>
    /\ \E id \in CodecIds, p \in CodecPayloads :
          rx = Tagged(FPacket(_le(id), p), [kind |-> "valid", id |-> id, payload |-> p])
    /\ lpc = "header"
    /\ lengthbyte = << >>
    /\ topic_id = << >>
    /\ msgdata = << >>
    /\ msgobj = Unbound
    /\ cur = NoCur
    /\ last = [op |-> "peer"]
    /\ used = << >>
    /\ ncalls = 0
    /\ nframes = 1
    /\ thr = [t \in Threads |-> IdleThr]
    /\ called = << >>

SpecCodec == InitCodec /\ [][ListenNext]_vars

\* the module-level functions checksum, _le and word called on their own
MaxArrLen == 3
PureBytes == {0, 1, 255}
PureArrs == UNION {[1..n -> PureBytes] : n \in 0..MaxArrLen}
PureInts == {0, 255, 256, 65535, 65536, 65537, 131071}

InitPure ==
    /\ _id = 101
    /\ advertised_topics = << >>
    /\ subscribing_topics = << >>
    /\ tx = << >>
    /\ rx = << >>
    /\ lpc = "header"
    /\ lengthbyte = << >>
    /\ topic_id = << >>
    /\ msgdata = << >>
    /\ msgobj = Unbound
    /\ cur = NoCur
    /\ \E arr \in PureArrs, x \in PureInts : last = [op |-> "input", arr |-> arr, x |-> x]
    /\ used = << >>
    /\ ncalls = 0
    /\ nframes = 0
    /\ thr = [t \in Threads |-> IdleThr]
    /\ called = << >>

\* checksum(arr) on the input bytes taken in any order
ChecksumCall ==
    /\ last.op = "input"
    /\ \E p \in Permutations(1..Len(last.arr)) :
          LET arr == [i \in 1..Len(last.arr) |-> last.arr[p[i]]]
          IN last' = [op |-> "checksum", arr |-> arr, of |-> last.arr,
                      out |-> checksum(arr), out0 |-> checksum(last.arr)]
    /\ UNCHANGED <<registry, tx, rx, listener, used, ncalls, nframes, threads>>

\* _le(x), and word on the two bytes it returned
LeCall ==
    /\ last.op = "input"
    /\ LET out == _le(last.x)
       IN last' = [op |-> "_le", x |-> last.x, out |-> out,
                   back |-> word(out[1], out[2])]
    /\ UNCHANGED <<registry, tx, rx, listener, used, ncalls, nframes, threads>>

PureNext == ChecksumCall \/ LeCall

SpecPure == InitPure /\ [][PureNext]_vars

(***************************************************************************)
(* Properties of the send side.                                            *)
(***************************************************************************)
\* the frame is laid out as the wire format says and both checksums validate
WellFormed(f) ==
    /\ Len(f) >= 8
    /\ SubSeq(f, 1, 2) = header
    /\ FrameLength(f) = Len(f) - 8
    /\ LenChecksumOk(SubSeq(f, 3, 4), f[5])
    /\ DataChecksumOk(SubSeq(f, 6, 7), FramePayload(f), f[Len(f)])

\* the fields of the TopicInfo record a negotiation frame carries
DescriptorId(f) == word(FramePayload(f)[1], FramePayload(f)[2])
DescriptorName(f) ==
    LET p == FramePayload(f) IN SubSeq(p, 7, 6 + word(p[3], p[4]))

Negotiations == {i \in 1..Len(tx) : tx[i].site = "advertise"}
DataFrames == {i \in 1..Len(tx) : tx[i].site = "publish"}
AdvertisedIds == {advertised_topics[n] : n \in DOMAIN advertised_topics}

\* C1: a completed subscribe(name, decoder, callback) leaves (decoder, callback)
\* in subscribing_topics under the ID advertised_topics holds for name, and
\* every key of subscribing_topics is the ID of an advertised name.
C1_SubscribeUnderAdvertisedId ==
    /\ last.op = "subscribe" =>
          /\ advertised_topics[last.name] \in DOMAIN subscribing_topics
          /\ subscribing_topics[advertised_topics[last.name]] = <<last.msgobj, last.cb>>
    /\ DOMAIN subscribing_topics \subseteq AdvertisedIds

\* C2 as stated: every negotiation frame carries topic ID 0 in its header, and
\* no data frame written by publish carries topic ID 0.
C2_NegotiationOnChannelZero ==
    /\ \A i \in Negotiations : FrameTopicId(tx[i].bytes) = 0
    /\ \A i \in DataFrames : FrameTopicId(tx[i].bytes) /= 0

\* C2 amended: a negotiation frame carries in its header the endpoint of its
\* direction, 0 when publish advertised the topic and 1 when subscribe did; a
\* data frame written by publish carries neither 0 nor 1.
C2_NegotiationOnEndpoint ==
    /\ \A i \in Negotiations :
          /\ WellFormed(tx[i].bytes)
          /\ FrameTopicId(tx[i].bytes) = IF tx[i].by = "publish" THEN 0 ELSE 1
    /\ \A i \in DataFrames : FrameTopicId(tx[i].bytes) \notin {0, 1}

\* negotiation frames of both directions and a data frame have been written
C2_Witness ==
    /\ \E i \in Negotiations : tx[i].by = "publish"
    /\ \E i \in Negotiations : tx[i].by = "subscribe"
    /\ DataFrames /= {}

\* C3: a name used in several calls (publish or subscribe, in any mix) keeps
\* the ID it got on first use, and exactly one negotiation frame has been
\* written per distinct name used.
C3_OneNegotiationPerName ==
    /\ DOMAIN advertised_topics = DOMAIN used
    /\ \A n \in DOMAIN used :
          /\ advertised_topics[n] = used[n].id
          /\ Cardinality({i \in Negotiations :
                             DescriptorName(tx[i].bytes) = NameBytes(n)}) = 1
    /\ Cardinality(Negotiations) = Cardinality(DOMAIN used)

\* a name first used by one operation was used again by the other, and a
\* second name has been advertised since
C3_Witness ==
    /\ last.op \in {"publish", "subscribe"}
    /\ ~last.fresh
    /\ used[last.name].by /= last.op
    /\ Cardinality(DOMAIN used) = 2

\* the frames the last call wrote
Written == SubSeq(tx, last.txlen + 1, Len(tx))

\* C4: publish on a name not yet advertised writes exactly two frames: the
\* negotiation frame with topic ID 0 whose descriptor carries the new ID, then
\* the data frame at that ID with the serialized message; publish on an
\* advertised name writes exactly one data frame at the name's ID.
C4_PublishFrames ==
    last.op = "publish" =>
        LET id == advertised_topics[last.name]
            data == Written[Len(Written)]
        IN /\ Len(Written) = IF last.fresh THEN 2 ELSE 1
           /\ last.fresh =>
                 /\ id = _id - 1
                 /\ Written[1].site = "advertise"
                 /\ WellFormed(Written[1].bytes)
                 /\ FrameTopicId(Written[1].bytes) = 0
                 /\ DescriptorId(Written[1].bytes) = id
                 /\ DescriptorName(Written[1].bytes) = NameBytes(last.name)
           /\ ~last.fresh => id = used[last.name].id
           /\ data.site = "publish"
           /\ WellFormed(data.bytes)
           /\ FrameTopicId(data.bytes) = id
           /\ FramePayload(data.bytes) = SerializeMsg(last.msg)

\* a publish on a fresh name after another name was advertised
C4_Witness ==
    /\ last.op = "publish"
    /\ last.fresh
    /\ Len(tx) = 3
    /\ tx[1].site = "advertise"
    /\ last.msg.body = <<233>>

\* C12: subscribe with a callback of None raises to the caller and changes
\* nothing: _id, advertised_topics, subscribing_topics are as they were and no
\* frame was written; a subscribe that went through had a callback.
C12_NullCallbackRejected ==
    /\ last.op = "subscribe" => last.cb /= None
    /\ last.op = "subscribe_failed" =>
          /\ last.cb = None
          /\ last.exc = "AssertionError"
          /\ registry = last.reg
          /\ tx = last.tx

\* a subscribe with no callback failed on a node that has topics and has
\* written frames
C12_Witness ==
    /\ last.op = "subscribe_failed"
    /\ subscribing_topics /= << >>
    /\ Len(tx) >= 2

\* C16: _id is 101 plus the number of advertised names, the k-th distinct
\* name used holds ID 100 + k, and a call moves _id up by one exactly when it
\* advertises a new name and leaves it alone otherwise.
C16_IdCounter ==
    /\ [](/\ _id = 101 + Cardinality(DOMAIN advertised_topics)
          /\ DOMAIN advertised_topics = DOMAIN used
          /\ \A n \in DOMAIN used : advertised_topics[n] = 100 + used[n].k)
    /\ [][_id' = _id + Cardinality(DOMAIN advertised_topics' \ DOMAIN advertised_topics)]_vars

\* both names are advertised and a call on an advertised name came after
C16_Witness ==
    /\ last.op \in {"publish", "subscribe"}
    /\ ~last.fresh
    /\ _id = 103
    /\ \E n \in DOMAIN used : used[n].k = 2 /\ advertised_topics[n] = 102

(***************************************************************************)
(* Properties of the module-level functions.                               *)
(***************************************************************************)
\* the sum of the bytes, taken over the positions in no particular order
SumOver(arr, I) ==
    LET RECURSIVE Go(_)
        Go(J) == IF J = {} THEN 0
                 ELSE LET j == CHOOSE j \in J : \A i \in J : arr[j] >= arr[i]
                      IN arr[j] + Go(J \ {j})
    IN Go(I)

\* C17: checksum of a byte sequence lies in 0..255, is 255 minus the sum of
\* the bytes mod 256, and is the same for every reordering of the bytes.
C17_Checksum ==
    last.op = "checksum" =>
        /\ last.out \in 0..255
        /\ last.out = 255 - (SumOver(last.of, DOMAIN last.of) % 256)
        /\ last.out = last.out0

\* the checksum of three bytes whose sum passes 256 was taken in an order
\* other than the given one
C17_Witness ==
    /\ last.op = "checksum"
    /\ Len(last.arr) = 3
    /\ last.arr /= last.of
    /\ SumOver(last.of, DOMAIN last.of) > 256

\* C18: _le(x) for x >= 0 is two bytes, each in 0..255, and word of the two
\* gives x mod 65536.
C18_LeWraps ==
    last.op = "_le" =>
        /\ Len(last.out) = 2
        /\ last.out[1] \in 0..255
        /\ last.out[2] \in 0..255
        /\ last.back = last.x % 65536

\* a value past 16 bits was encoded
C18_Witness ==
    /\ last.op = "_le"
    /\ last.x = 65537
    /\ last.out = <<1, 0>>

(***************************************************************************)
(* Properties of the receive loop.                                         *)
(***************************************************************************)
ReadSteps == {"header", "length", "lenchk", "topic", "payload", "chk"}
Listened(at) == last.op = "listen" /\ last.at = at

\* the transmission that follows is at the head of the stream
Aligned == rx = << >> \/ rx[1].f /= NoFrame

\* C5: once subscribe(name, decoder, cb) on a fresh name is in place, a
\* well-formed frame read at the ID negotiated for name makes the loop invoke
\* cb, once, with the message decoder makes of the frame's payload, and no
\* other callback.
C5_FreshSubscriptionDispatch ==
    (Listened("invoke") /\ last.f.kind = "valid" /\ last.dx = "none") =>
        \A n \in DOMAIN used :
            (/\ used[n].by = "subscribe"
             /\ used[n].id = last.f.id
             /\ last.entry = used[n].entry)
            => last.invoked = <<[cb |-> used[n].entry[2],
                                 msg |-> Deserialize(used[n].entry[1], last.f.payload)]>>

\* two names are subscribed with different callbacks and a frame for the
\* second was dispatched to its callback
C5_Witness ==
    /\ Listened("invoke")
    /\ last.f.kind = "valid"
    /\ last.f.id = 102
    /\ last.f.payload = <<7>>
    /\ "b" \in DOMAIN used /\ used["b"].by = "subscribe" /\ used["b"].id = 102
    /\ "a" \in DOMAIN used /\ used["a"].by = "subscribe"
    /\ used["a"].entry /= used["b"].entry
    /\ Len(last.invoked) = 1
    /\ last.invoked[1].cb = used["b"].entry[2]

\* C6: a frame for a subscribed topic whose trailing checksum byte is wrong
\* invokes no callback and leaves the loop running at the header scan with the
\* stream at the next transmission; a valid frame right behind it is
\* dispatched to the callback of its topic.
C6_BadChecksumRejected ==
    /\ (Listened("chk") /\ last.f.kind = "badchk") =>
          /\ last.exc = "ValueError"
          /\ lpc = "header"
          /\ Aligned
    /\ lpc \in {"lookup", "invoke"} => cur.f.kind /= "badchk"
    /\ Listened("invoke") => last.f.kind /= "badchk"
    /\ (/\ Listened("invoke")
        /\ last.afterBad
        /\ last.f.kind = "valid"
        /\ last.entry /= NoEntry
        /\ last.dx = "none")
       => last.invoked = <<[cb |-> subscribing_topics[last.f.id][2],
                            msg |-> Deserialize(last.entry[1], last.f.payload)]>>

\* the valid frame behind a frame with a bad trailing checksum was dispatched
C6_Witness ==
    /\ Listened("invoke")
    /\ last.afterBad
    /\ last.f.kind = "valid"
    /\ last.f.id = 101
    /\ Len(last.invoked) = 1
    /\ lpc = "header"

\* C7: a valid frame whose non-zero topic ID has no entry in
\* subscribing_topics invokes no callback, leaves the registry as it was, and
\* the loop goes back to the header scan.
C7_UnknownTopicDropped ==
    (Listened("invoke") /\ ~last.found) =>
        /\ last.invoked = << >>
        /\ registry = last.reg
        /\ last.exc = "TypeError"
        /\ lpc = "header"

\* a valid frame arrived for the ID of a topic that publish advertised and
\* nobody subscribed, while another topic has a subscriber
C7_Witness ==
    /\ Listened("invoke")
    /\ ~last.found
    /\ last.entry = NoEntry
    /\ last.f.kind = "valid"
    /\ last.f.id \in AdvertisedIds
    /\ subscribing_topics /= << >>
    /\ lpc = "header"

\* C8: the frame the send path builds for a topic ID in 1..65535 and a
\* payload passes the receive path's reads with both checksums valid and
\* yields the same topic ID and the same payload bytes.
C8_RoundTrip ==
    /\ (last.op = "listen" /\ last.at \in ReadSteps /\ last.f.kind = "valid") =>
          /\ last.exc = "none"
          /\ lpc /= "header"
    /\ (lpc = "lookup" /\ cur.f.kind = "valid") =>
          /\ length = Len(cur.f.payload)
          /\ inid = cur.f.id
          /\ msgdata = cur.f.payload

\* the largest topic ID with a payload of the greatest length was decoded
C8_Witness ==
    /\ lpc = "lookup"
    /\ cur.f.kind = "valid"
    /\ cur.f.id = 65535
    /\ Len(cur.f.payload) = MaxPayloadLen
    /\ msgdata = cur.f.payload

\* C9: whatever exception the decoder or the callback raises while a valid
\* frame is dispatched, the loop catches it and goes back to the header scan.
C9_CallbackExceptionCaught ==
    (Listened("invoke") /\ last.raisedBy \in {"decoder", "callback"}) => lpc = "header"

\* C10: whatever a read returns (all bytes, fewer, none, an OSError) and
\* whether or not the checksums validate, the loop does not end.
C10_ReadsNeverEndLoop ==
    (last.op = "listen" /\ last.at \in ReadSteps) => lpc /= "dead"

\* C13: no step of the loop changes _id, advertised_topics or
\* subscribing_topics; when the loop invokes a callback, the bytes it read in
\* that iteration begin with the header and carry a valid length checksum and a
\* valid payload checksum; a frame the peer sent with a wrong length checksum
\* or a wrong payload checksum gets no further than the failing check and no
\* callback is invoked for it.
C13_OnlyValidatedFramesDispatched ==
    /\ last.op = "listen" => registry = last.reg
    /\ (Listened("invoke") /\ last.invoked /= << >>) =>
          LET raw == last.raw
          IN /\ Len(last.invoked) = 1
             /\ Len(raw) >= 8
             /\ SubSeq(raw, 1, 2) = header
             /\ LenChecksumOk(SubSeq(raw, 3, 4), raw[5])
             /\ DataChecksumOk(SubSeq(raw, 6, 7), FramePayload(raw), raw[Len(raw)])
             /\ last.f.kind \notin {"badlen", "badchk"}
    /\ (last.op = "listen" /\ last.f.kind = "badlen") =>
          /\ last.at \in {"header", "length", "lenchk"}
          /\ last.at = "lenchk" => last.exc = "ValueError" /\ lpc = "header"
    /\ (last.op = "listen" /\ last.f.kind = "badchk") =>
          /\ last.at \in ReadSteps
          /\ last.at = "chk" => last.exc = "ValueError" /\ lpc = "header"
    /\ lpc \in {"lookup", "invoke"} => cur.f.kind \notin {"badlen", "badchk"}

\* a frame with a wrong length checksum for a subscribed topic was rejected
\* at the length check
C13_Witness ==
    /\ Listened("lenchk")
    /\ last.f.kind = "badlen"
    /\ last.exc = "ValueError"
    /\ last.f.id \in DOMAIN subscribing_topics

\* C19: after the loop has read the topic ID of a well-formed frame with topic
\* ID 0 and a payload that is not empty, it is back at the header scan with the
\* stream standing right behind that frame's trailing checksum byte, and no
\* callback was invoked for the frame.
C19_ControlFrameSkipped ==
    /\ (/\ Listened("topic")
        /\ last.f.kind = "valid"
        /\ last.f.id = 0
        /\ last.f.payload /= << >>)
       => (lpc = "header" /\ Aligned)
    /\ (Listened("invoke") /\ last.f.kind = "valid") => last.f.id /= 0

(***************************************************************************)
(* Properties of calls from several threads.                               *)
(***************************************************************************)
\* no name has been the argument of calls from two threads
DistinctNames == \A n \in DOMAIN called : Cardinality(called[n]) <= 1

\* C14: while the threads call publish and subscribe with names of their
\* own, no two names of advertised_topics hold the same ID and no two
\* negotiation frames carry the same ID in their descriptor.
C14_ConcurrentIdsUnique ==
    DistinctNames =>
        /\ \A m \in DOMAIN advertised_topics, n \in DOMAIN advertised_topics :
              m /= n => advertised_topics[m] /= advertised_topics[n]
        /\ \A i \in Negotiations, j \in Negotiations :
              i /= j => DescriptorId(tx[i].bytes) /= DescriptorId(tx[j].bytes)

\* C15: whatever the threads call, a name of advertised_topics keeps the ID
\* it was first given and at most one negotiation frame is written per name.
C15_ConcurrentOneIdPerName ==
    /\ \A n \in DOMAIN used :
          n \in DOMAIN advertised_topics /\ advertised_topics[n] = used[n].id
    /\ \A n \in Names :
          Cardinality({i \in Negotiations : DescriptorName(tx[i].bytes) = NameBytes(n)}) <= 1

\* C20: subscribe on a name not yet advertised has its [msgobj, _cb] in
\* subscribing_topics before its negotiation frame is written: every ID a
\* written subscriber negotiation frame names has its entry, and a valid frame
\* the peer sent for such an ID finds that entry when the loop dispatches it.
C20_EntryBeforeNegotiation ==
    /\ \A id \in {101, 102} : Negotiated(id) =>
          /\ id \in DOMAIN subscribing_topics
          /\ \E n \in DOMAIN used :
                /\ used[n].id = id
                /\ used[n].by = "subscribe"
                /\ subscribing_topics[id] = used[n].entry
    /\ (Listened("invoke") /\ last.f.kind = "valid") =>
          /\ last.found
          /\ last.entry = subscribing_topics[last.f.id]
          /\ last.dx = "none" =>
                last.invoked = <<[cb |-> last.entry[2],
                                  msg |-> Deserialize(last.entry[1], last.f.payload)]>>

\* the frame for a subscribed topic was dispatched while the caller was
\* inside its next call
C20_Witness ==
    /\ Listened("invoke")
    /\ last.f.kind = "valid"
    /\ last.found
    /\ Len(last.invoked) = 1
    /\ thr["t1"].pc /= "idle"

(***************************************************************************)
(* Resynchronisation.                                                      *)
(***************************************************************************)
\* the loop has just invoked the callback for a well-formed frame of the peer
Dispatched ==
    /\ Listened("invoke")
    /\ last.f.kind = "valid"
    /\ Len(last.invoked) = 1

\* C11: once topic 101 is subscribed and a stray byte stands in front of the
\* well-formed frames the peer goes on sending for it, the loop finds the
\* frame boundary again: time and again a frame is dispatched to the callback.
C11_StrayByteResync ==
    [](101 \in DOMAIN subscribing_topics /\ nframes = 1 => <>Dispatched)

====
